---- MODULE Spec2Model ----
(***************************************************************************)
(* Model of the two scrapers of the repository:                            *)
(*   src/Solution/nike_scraper.py              (product variant)           *)
(*   src/Solution/welcome_jungle_scraper (1).py (job variant)              *)
(*                                                                         *)
(* Text is modelled as a sequence of one-character strings, so that        *)
(* trimming, prefix tests, substring tests and the price pattern are       *)
(* computed the way the code computes them.  An optional value (a DOM     *)
(* element that may be absent, an attribute that may be null) is modelled  *)
(* as a sequence of length 0 (absent) or 1 (present).                      *)
(***************************************************************************)
EXTENDS Integers, Sequences, FiniteSets, TLC

VARIABLES
    variant,          \* which script runs: "product" or "job"
    pc,               \* position of the running script
    products,         \* NikeScraper.products
    seen_urls,        \* NikeScraper.seen_urls
    target_count,     \* scroll_and_load parameter
    last_count,       \* scroll_and_load local
    no_change_count,  \* scroll_and_load local
    new_products,     \* scroll_and_load local: last value returned by extract_products_from_page
    zeroRun,          \* history: number of most recent consecutive batches that returned 0 (counted up to the limit)
    stream,           \* history: every product dict returned by page.evaluate, in order
    all_jobs_data,    \* scrape_welcome_to_jungle local
    page_number,      \* scrape_welcome_to_jungle local
    extracted,        \* history: every dict returned by extract_job_data, in order
    unique_data,      \* scrape_welcome_to_jungle local
    csv_rows,         \* rows of welcome_to_jungle_jobs.csv after the header
    empty_tagging_count, \* NikeScraper.empty_tagging_count
    valid_products,   \* main local: what filter_and_save_products returned
    products_csv,     \* nike_products.csv: absent, or its rows after the header
    top10,            \* what print_top_10_expensive listed
    top20_csv,        \* top_20_rating_review.csv: absent, or its rows after the header
    card,             \* extraction check: the raw card handed to the extractor
    rec,              \* extraction check: the record the extractor returned
    epc               \* extraction check: "input" or "extracted"

vars == << variant, pc, products, seen_urls, target_count, last_count,
           no_change_count, new_products, zeroRun, stream, all_jobs_data,
           page_number, extracted, unique_data, csv_rows, empty_tagging_count,
           valid_products, products_csv, top10, top20_csv, card, rec, epc >>

pipelineVars == << variant, pc, products, seen_urls, target_count, last_count,
                   no_change_count, new_products, zeroRun, stream,
                   all_jobs_data, page_number, extracted, unique_data, csv_rows >>

pipelineVarsButPc == << variant, products, seen_urls, target_count, last_count,
                        no_change_count, new_products, zeroRun, stream,
                        all_jobs_data, page_number, extracted, unique_data, csv_rows >>

postVars == << empty_tagging_count, valid_products, products_csv, top10, top20_csv >>

extractVars == << card, rec, epc >>

(***************************************************************************)
(* Text helpers                                                            *)
(***************************************************************************)
None == <<>>

Some(x) == <<x>>

EmptyStr == <<>>

\* Python None / JavaScript null held as a dict value
PyNone == <<"<None>">>

Peso == "₱"

Digits == {"0", "1", "2", "3", "4", "5", "6", "7", "8", "9"}

IsWs(c) == c \in {" ", "\n", "\t"}

RECURSIVE LStrip(_)
LStrip(s) == IF s = <<>> THEN s
             ELSE IF IsWs(Head(s)) THEN LStrip(Tail(s)) ELSE s

RECURSIVE RStrip(_)
RStrip(s) == IF s = <<>> THEN s
             ELSE IF IsWs(s[Len(s)]) THEN RStrip(SubSeq(s, 1, Len(s) - 1)) ELSE s

\* str.strip() / String.prototype.trim()
Strip(s) == RStrip(LStrip(s))

UpperToLower == [c \in {"A", "B", "C", "D", "E", "F", "G", "H", "I", "J", "K", "L", "M",
                        "N", "O", "P", "Q", "R", "S", "T", "U", "V", "W", "X", "Y", "Z"} |->
    CASE c = "A" -> "a" [] c = "B" -> "b" [] c = "C" -> "c" [] c = "D" -> "d"
      [] c = "E" -> "e" [] c = "F" -> "f" [] c = "G" -> "g" [] c = "H" -> "h"
      [] c = "I" -> "i" [] c = "J" -> "j" [] c = "K" -> "k" [] c = "L" -> "l"
      [] c = "M" -> "m" [] c = "N" -> "n" [] c = "O" -> "o" [] c = "P" -> "p"
      [] c = "Q" -> "q" [] c = "R" -> "r" [] c = "S" -> "s" [] c = "T" -> "t"
      [] c = "U" -> "u" [] c = "V" -> "v" [] c = "W" -> "w" [] c = "X" -> "x"
      [] c = "Y" -> "y" [] c = "Z" -> "z"]

\* str.lower()
Lower(s) == [i \in 1..Len(s) |-> IF s[i] \in DOMAIN UpperToLower THEN UpperToLower[s[i]] ELSE s[i]]

\* p in s
Contains(s, p) == \E i \in 0..(Len(s) - Len(p)) : SubSeq(s, i + 1, i + Len(p)) = p

\* s.startswith(p)
StartsWith(s, p) == Len(s) >= Len(p) /\ SubSeq(s, 1, Len(p)) = p

RECURSIVE Concat(_)
Concat(ss) == IF ss = <<>> THEN <<>> ELSE Head(ss) \o Concat(Tail(ss))

\* the length of the longest prefix of s made of characters of cs
RECURSIVE RunLen(_, _)
RunLen(s, cs) == IF s # <<>> /\ Head(s) \in cs THEN 1 + RunLen(Tail(s), cs) ELSE 0

\* allText.match(/₱[\d,]+/g): every leftmost, greedy, non-overlapping match
\* (JavaScript returns null when there is none: the empty sequence here)
RECURSIVE PriceMatches(_)
PriceMatches(s) ==
    IF s = <<>> THEN <<>>
    ELSE LET k == RunLen(Tail(s), Digits \cup {","})
         IN  IF Head(s) = Peso /\ k > 0
             THEN <<SubSeq(s, 1, k + 1)>> \o PriceMatches(SubSeq(s, k + 2, Len(s)))
             ELSE PriceMatches(Tail(s))

\* re.search(r'(\d+)', s).group(1): the first run of digits, None when there is no digit
RECURSIVE FirstDigitRun(_)
FirstDigitRun(s) ==
    IF s = <<>> THEN None
    ELSE IF Head(s) \in Digits THEN Some(SubSeq(s, 1, RunLen(s, Digits)))
    ELSE FirstDigitRun(Tail(s))

\* all_text.split('\n')
RECURSIVE SplitLines(_)
SplitLines(s) ==
    LET k == RunLen(s, {c \in {s[i] : i \in 1..Len(s)} : c # "\n"})
    IN  IF k = Len(s) THEN <<s>>
        ELSE <<SubSeq(s, 1, k)>> \o SplitLines(SubSeq(s, k + 2, Len(s)))

\* index of the first strategy whose flag is set; 0 when none is: the
\* "for selector in ...: if ...: break" loops
FirstHit(flags) ==
    LET hits == {i \in 1..Len(flags) : flags[i]}
    IN  IF hits = {} THEN 0 ELSE CHOOSE i \in hits : \A j \in hits : i <= j

(***************************************************************************)
(* Product variant: the card extractor (browser side of                    *)
(* extract_products_from_page)                                             *)
(*                                                                         *)
(* A raw product card is a record                                          *)
(*   link      None, or Some(href) with href None (no attribute) or        *)
(*             Some(text)                                                  *)
(*   img       as link, for the src attribute                              *)
(*   labels    the element found by each of the five label selectors:      *)
(*             None or Some(textContent)                                   *)
(*   badge     the badge/ribbon element: None or Some(textContent)         *)
(*   name, desc  None or Some(textContent)                                 *)
(*   priceWrap TRUE when one element with a price class encloses the       *)
(*             leaf price elements                                         *)
(*   priceEls  textContent of the leaf elements with a price class         *)
(*   strike    TRUE when a strikethrough element exists                    *)
(*   otherText the text of the card outside the price elements             *)
(***************************************************************************)
NikeBase == <<"h", "t", "t", "p", "s", ":", "/", "/", "w", "w", "w", ".", "n", "i", "k", "e", ".", "c", "o", "m">>

\* 'https://www.nike.com' + link.getAttribute('href')
JsConcatAttr(base, attr) == base \o (IF attr = None THEN <<"n", "u", "l", "l">> ELSE attr[1])

productUrlOf(c) == IF c.link # None THEN JsConcatAttr(NikeBase, c.link[1]) ELSE EmptyStr

imageUrlOf(c) ==
    IF c.img # None THEN (IF c.img[1] = None THEN PyNone ELSE c.img[1][1]) ELSE EmptyStr

\* number of label selectors tried
NumLabelSelectors == 5

\* line 83: tagElement.textContent.trim() is not empty
LabelAccept(t) == Strip(t) # EmptyStr

taggingOf(c) ==
    LET i == FirstHit([k \in 1..Len(c.labels) |->
                          c.labels[k] # None /\ LabelAccept(c.labels[k][1])])
        tagging == IF i = 0 THEN EmptyStr ELSE Strip(c.labels[i][1])
    IN  IF tagging = EmptyStr /\ c.badge # None THEN Strip(c.badge[1]) ELSE tagging

TrimmedTextOf(el) == IF el # None THEN Strip(el[1]) ELSE EmptyStr

\* card.querySelectorAll('[class*="price"]') in document order, as textContent
priceElementsOf(c) ==
    (IF c.priceWrap THEN <<Concat(c.priceEls)>> ELSE <<>>) \o c.priceEls

HasPeso(t) == \E i \in 1..Len(t) : t[i] = Peso

priceTextsOf(c) ==
    LET texts == priceElementsOf(c)
    IN  SelectSeq([i \in 1..Len(texts) |-> Strip(texts[i])], HasPeso)

\* card.textContent
allTextOf(c) == c.otherText \o Concat(c.priceEls)

\* lines 111-125
PrimaryPrices(priceTexts, strikethrough) ==
    IF Len(priceTexts) = 2
    THEN [originalPrice |-> priceTexts[1], discountPrice |-> priceTexts[2]]
    ELSE IF Len(priceTexts) = 1
    THEN IF strikethrough
         THEN [originalPrice |-> priceTexts[1], discountPrice |-> EmptyStr]
         ELSE [originalPrice |-> priceTexts[1], discountPrice |-> priceTexts[1]]
    ELSE [originalPrice |-> EmptyStr, discountPrice |-> EmptyStr]

UseFallback_either(p) == p.originalPrice = EmptyStr \/ p.discountPrice = EmptyStr

\* line 128: if (!originalPrice && !discountPrice)
UseFallback(p) == p.originalPrice = EmptyStr /\ p.discountPrice = EmptyStr

FallbackPrices_exactlyTwo(p, allText) ==
    LET priceMatches == PriceMatches(allText)
    IN  IF Len(priceMatches) = 2
        THEN [originalPrice |-> priceMatches[1], discountPrice |-> priceMatches[2]]
        ELSE IF Len(priceMatches) = 1
        THEN [originalPrice |-> priceMatches[1], discountPrice |-> priceMatches[1]]
        ELSE p

\* lines 129-139
FallbackPrices(p, allText) ==
    LET priceMatches == PriceMatches(allText)
    IN  IF priceMatches # <<>>
        THEN IF Len(priceMatches) >= 2
             THEN [originalPrice |-> priceMatches[1], discountPrice |-> priceMatches[2]]
             ELSE [originalPrice |-> priceMatches[1], discountPrice |-> priceMatches[1]]
        ELSE p

ResolvePrices(c) ==
    LET p == PrimaryPrices(priceTextsOf(c), c.strike)
    IN  IF UseFallback(p) THEN FallbackPrices(p, allTextOf(c)) ELSE p

\* lines 142-150: the object pushed for one card
ExtractProductCard(c) ==
    LET p == ResolvePrices(c)
    IN  [productUrl    |-> productUrlOf(c),
         imageUrl      |-> imageUrlOf(c),
         tagging       |-> taggingOf(c),
         productName   |-> TrimmedTextOf(c.name),
         description   |-> TrimmedTextOf(c.desc),
         originalPrice |-> p.originalPrice,
         discountPrice |-> p.discountPrice]

(***************************************************************************)
(* Product variant: deduplication (Python side of                          *)
(* extract_products_from_page) and the scroll loop                         *)
(***************************************************************************)
ProductFields == {"productUrl", "imageUrl", "tagging", "productName", "description",
                  "originalPrice", "discountPrice", "sizesAvailable", "vouchers",
                  "availableColors", "colorShown", "styleCode", "ratingScore",
                  "reviewCount"}

WithDetailFields_rated(product) ==
    [sizesAvailable  |-> EmptyStr,
     vouchers        |-> EmptyStr,
     availableColors |-> EmptyStr,
     colorShown      |-> EmptyStr,
     styleCode       |-> EmptyStr,
     ratingScore     |-> <<"4", ".", "8">>,
     reviewCount     |-> <<"2", "0", "0">>] @@ product

WithDetailFields_partial(product) ==
    [sizesAvailable  |-> EmptyStr,
     vouchers        |-> EmptyStr,
     availableColors |-> EmptyStr,
     colorShown      |-> EmptyStr,
     styleCode       |-> EmptyStr,
     ratingScore     |-> EmptyStr] @@ product

\* lines 166-172: the placeholder fields set on a dict before it is appended
WithDetailFields(product) ==
    [sizesAvailable  |-> EmptyStr,
     vouchers        |-> EmptyStr,
     availableColors |-> EmptyStr,
     colorShown      |-> EmptyStr,
     styleCode       |-> EmptyStr,
     ratingScore     |-> EmptyStr,
     reviewCount     |-> EmptyStr] @@ product

IsNewUrl_any(st, product) == product["productUrl"] # EmptyStr

\* line 162
IsNewUrl(st, product) ==
    product["productUrl"] # EmptyStr /\ product["productUrl"] \notin st.seen_urls

AddProduct_replace(st, product) ==
    IF IsNewUrl(st, product)
    THEN [products  |-> Append(st.products, WithDetailFields(product)),
          seen_urls |-> st.seen_urls \cup {product["productUrl"]},
          new_count |-> st.new_count + 1]
    ELSE [st EXCEPT !.products =
            [i \in 1..Len(st.products) |->
                IF st.products[i]["productUrl"] = product["productUrl"]
                THEN WithDetailFields(product) ELSE st.products[i]]]

\* lines 162-175: one iteration of the loop over product_data
AddProduct(st, product) ==
    IF IsNewUrl(st, product)
    THEN [products  |-> Append(st.products, WithDetailFields(product)),
          seen_urls |-> st.seen_urls \cup {product["productUrl"]},
          new_count |-> st.new_count + 1]
    ELSE st

\* lines 160-177
RECURSIVE AddProducts(_, _)
AddProducts(st, product_data) ==
    IF product_data = <<>> THEN st
    ELSE AddProducts(AddProduct(st, Head(product_data)), Tail(product_data))

\* the threshold of consecutive batches without growth
NoChangeLimit == 5

PlateauReached_early(n) == n >= NoChangeLimit - 1

\* line 38
PlateauReached(n) == n >= NoChangeLimit

NoChangeNext_reset(count, current_count, previous) == 0

\* lines 36-42: the counter after the comparison
NoChangeNext(count, current_count, previous) ==
    IF current_count = previous THEN count + 1 ELSE 0

\* bounds of the product pipeline
MaxTarget == 2

MaxBatch == 2

MaxStream == 4

Txt_New == <<"N", "e", "w">>

\* the cards the fetcher can show in the pipeline
NikeCard(link, name, labels, priceEls, strike) ==
    [link |-> link, img |-> None, labels |-> labels, badge |-> None,
     name |-> Some(name), desc |-> None, priceWrap |-> FALSE,
     priceEls |-> priceEls, strike |-> strike, otherText |-> name]

NoLabels == [i \in 1..NumLabelSelectors |-> None]

NikeCards ==
    { NikeCard(Some(Some(<<"/", "t", "/", "a">>)), <<"A", "i", "r">>, NoLabels, <<<<"₱", "1", "0", "0">>, <<"₱", "8", "0">>>>, FALSE),
      NikeCard(Some(Some(<<"/", "t", "/", "a">>)), <<"M", "a", "x">>, NoLabels, <<<<"₱", "9", "0">>>>, FALSE),
      NikeCard(Some(Some(<<"/", "t", "/", "b">>)), <<"Z", "o", "o", "m">>, NoLabels, <<<<"₱", "7", "0">>>>, TRUE),
      NikeCard(None, <<"C", "a", "p">>, NoLabels, <<<<"₱", "5", "0">>>>, FALSE),
      NikeCard(Some(Some(<<"/", "t", "/", "c">>)), <<"R", "u", "n">>, [NoLabels EXCEPT ![1] = Some(Txt_New)], <<>>, FALSE) }

\* lines 52-158 on each of these cards: what page.evaluate returns for it
NikeCardData == [c \in NikeCards |-> ExtractProductCard(c)]

NikeBatches == UNION {[1..n -> NikeCards] : n \in 0..MaxBatch}

\* lines 21-22
ScrollBegin ==
    /\ variant = "product"
    /\ pc = "start"
    /\ last_count' = 0
    /\ no_change_count' = 0
    /\ pc' = "scroll"
    /\ UNCHANGED << variant, products, seen_urls, target_count, new_products, zeroRun,
                    stream, all_jobs_data, page_number, extracted, unique_data, csv_rows >>
    /\ UNCHANGED extractVars
    /\ UNCHANGED postVars

\* lines 24-44: one iteration of the while loop, the call of
\* extract_products_from_page included
ScrollBatch ==
    /\ variant = "product"
    /\ pc = "scroll"
    /\ Len(products) < target_count
    /\ \E cards \in NikeBatches :
         LET product_data == [i \in 1..Len(cards) |-> NikeCardData[cards[i]]]
             st == AddProducts([products |-> products, seen_urls |-> seen_urls,
                                new_count |-> 0], product_data)
             current_count == Len(st.products)
         IN  /\ Len(stream) + Len(cards) <= MaxStream
             /\ stream' = stream \o product_data
             /\ products' = st.products
             /\ seen_urls' = st.seen_urls
             /\ new_products' = st.new_count
             /\ zeroRun' = IF st.new_count # 0 THEN 0
                            ELSE IF zeroRun < NoChangeLimit THEN zeroRun + 1 ELSE zeroRun
             /\ no_change_count' = NoChangeNext(no_change_count, current_count, last_count)
             /\ IF current_count = last_count
                   /\ PlateauReached(NoChangeNext(no_change_count, current_count, last_count))
                THEN pc' = "scrolled" /\ last_count' = last_count
                ELSE pc' = pc /\ last_count' = current_count
    /\ UNCHANGED << variant, target_count, all_jobs_data, page_number, extracted,
                    unique_data, csv_rows >>
    /\ UNCHANGED extractVars
    /\ UNCHANGED postVars

\* line 24 false: the loop ends, lines 46-47
ScrollExit ==
    /\ variant = "product"
    /\ pc = "scroll"
    /\ ~(Len(products) < target_count)
    /\ pc' = "scrolled"
    /\ UNCHANGED << variant, products, seen_urls, target_count, last_count, no_change_count,
                    new_products, zeroRun, stream, all_jobs_data, page_number, extracted,
                    unique_data, csv_rows >>
    /\ UNCHANGED extractVars
    /\ UNCHANGED postVars

(***************************************************************************)
(* Job variant: extract_job_data                                           *)
(*                                                                         *)
(* A raw job card is a record with, for every selector list, what each     *)
(* selector finds: None (no element: inner_text / get_attribute raises) or *)
(* Some(text); for the link selectors Some(href) with href None (the      *)
(* attribute is absent) or Some(text).  allText is None when               *)
(* card.inner_text() raises, else Some(text).                              *)
(***************************************************************************)
JobHeaders == <<"Job_Title", "Company_Title", "Company_Slogan", "Job_Type", "Location",
                "Work_Location", "Industry", "Employes_Count", "Posted_Ago", "Job_Link">>

JobFields == {JobHeaders[i] : i \in 1..Len(JobHeaders)}

NumTitleSelectors == 7

NumCompanySelectors == 5

NumSloganSelectors == 4

NumLocationSelectors == 6

NumIndustrySelectors == 3

NumEmployeeSelectors == 4

NumPostedSelectors == 6

NumLinkSelectors == 3

JobBase == <<"h", "t", "t", "p", "s", ":", "/", "/", "w", "w", "w", ".", "w", "e", "l", "c", "o", "m", "e", "t", "o", "t", "h", "e", "j", "u", "n", "g", "l", "e", ".", "c", "o", "m">>

job_type_keywords == {<<"f", "u", "l", "l", "-", "t", "i", "m", "e">>, <<"p", "a", "r", "t", "-", "t", "i", "m", "e">>, <<"c", "o", "n", "t", "r", "a", "c", "t">>, <<"t", "e", "m", "p", "o", "r", "a", "r", "y">>,
                      <<"i", "n", "t", "e", "r", "n", "s", "h", "i", "p">>, <<"p", "e", "r", "m", "a", "n", "e", "n", "t">>}

work_mode_keywords == {<<"r", "e", "m", "o", "t", "e">>, <<"o", "n", "-", "s", "i", "t", "e">>, <<"o", "n", "s", "i", "t", "e">>, <<"h", "y", "b", "r", "i", "d">>, <<"o", "f", "f", "i", "c", "e">>}

\* lines 289-300
EmptyJob == [h \in JobFields |-> EmptyStr]

\* line 315: if text and len(text) > 3
TitleAccept(text) == text # EmptyStr /\ Len(text) > 3

\* line 333: if text and text != job_data['Job_Title']
CompanyAccept(text, title) == text # EmptyStr /\ text # title

\* lines 350, 380, 403: if text
TextAccept(text) == text # EmptyStr

HasDigit(text) == \E i \in 1..Len(text) : text[i] \in Digits

\* line 420
EmployeeAccept(text) ==
    text # EmptyStr /\ (Contains(Lower(text), <<"e", "m", "p", "l", "o", "y", "e", "e">>) \/ HasDigit(text))

\* line 439
PostedAccept(text) ==
    /\ text # EmptyStr
    /\ \/ Contains(Lower(text), <<"a", "g", "o">>)
       \/ Contains(Lower(text), <<"d", "a", "y">>)
       \/ Contains(Lower(text), <<"y", "e", "s", "t", "e", "r", "d", "a", "y">>)

\* line 455: if href
HrefAccept(attr) == attr # None /\ attr[1] # EmptyStr

\* the selector loops of lines 311-319, 329-337, 346-354, 376-384, 399-407,
\* 416-424, 435-443: accepted[i] tells whether selector i found an element
\* whose text passed the test; the value is the stripped text of the first
\* such selector
CascadeValue(outs, accepted) ==
    LET i == FirstHit(accepted)
    IN  IF i = 0 THEN EmptyStr ELSE Strip(outs[i][1])

TitleHits(outs) == [i \in 1..Len(outs) |-> outs[i] # None /\ TitleAccept(outs[i][1])]

CompanyHits(outs, title) == [i \in 1..Len(outs) |-> outs[i] # None /\ CompanyAccept(outs[i][1], title)]

TextHits(outs) == [i \in 1..Len(outs) |-> outs[i] # None /\ TextAccept(outs[i][1])]

EmployeeHits(outs) == [i \in 1..Len(outs) |-> outs[i] # None /\ EmployeeAccept(outs[i][1])]

PostedHits(outs) == [i \in 1..Len(outs) |-> outs[i] # None /\ PostedAccept(outs[i][1])]

HrefHits(outs) == [i \in 1..Len(outs) |-> outs[i] # None /\ HrefAccept(outs[i][1])]

\* line 358
LinesOf(all_text) ==
    LET raw == SplitLines(all_text)
        stripped == [i \in 1..Len(raw) |-> Strip(raw[i])]
    IN  SelectSeq(stripped, LAMBDA l : l # EmptyStr)

\* lines 362-365 and 388-391: the first line holding one of the keywords
KeywordLine(lines, keywords) ==
    LET hits == {i \in 1..Len(lines) : \E k \in keywords : Contains(Lower(lines[i]), k)}
    IN  IF hits = {} THEN EmptyStr
        ELSE lines[CHOOSE i \in hits : \A j \in hits : i <= j]

LinkValue_raw(outs) ==
    LET i == FirstHit(HrefHits(outs))
    IN  IF i = 0 THEN EmptyStr ELSE outs[i][1][1]

\* lines 451-462
LinkValue(outs) ==
    LET i == FirstHit(HrefHits(outs))
        href == outs[i][1][1]
    IN  IF i = 0 THEN EmptyStr
        ELSE IF StartsWith(href, <<"/">>) THEN JobBase \o href
        ELSE IF StartsWith(href, <<"h", "t", "t", "p">>) THEN href
        ELSE EmptyStr

\* lines 284-468
ExtractJobData(c) ==
    LET title   == CascadeValue(c.title, TitleHits(c.title))
        company == CascadeValue(c.company, CompanyHits(c.company, title))
        slogan  == CascadeValue(c.slogan, TextHits(c.slogan))
        head    == [EmptyJob EXCEPT !["Job_Title"] = title,
                                    !["Company_Title"] = company,
                                    !["Company_Slogan"] = slogan]
    IN  IF c.allText = None
        THEN head    \* card.inner_text() raised: the outer handler returns job_data as it is
        ELSE LET lines == LinesOf(c.allText[1])
             IN  [head EXCEPT
                    !["Job_Type"] = KeywordLine(lines, job_type_keywords),
                    !["Location"] = CascadeValue(c.location, TextHits(c.location)),
                    !["Work_Location"] = KeywordLine(lines, work_mode_keywords),
                    !["Industry"] = CascadeValue(c.industry, TextHits(c.industry)),
                    !["Employes_Count"] = CascadeValue(c.employee, EmployeeHits(c.employee)),
                    !["Posted_Ago"] = CascadeValue(c.posted, PostedHits(c.posted)),
                    !["Job_Link"] = LinkValue(c.link)]

\* dict.get(key, default)
Get(d, key, default) == IF key \in DOMAIN d THEN d[key] ELSE default

(***************************************************************************)
(* Job variant: clean_job_data                                             *)
(***************************************************************************)
OneDaysAgo == <<"1", " ", "d", "a", "y", "s", " ", "a", "g", "o">>

CleanPosted_cased(cleaned) ==
    IF Get(cleaned, "Posted_Ago", EmptyStr) # EmptyStr
       /\ Contains(Strip(cleaned["Posted_Ago"]), <<"y", "e", "s", "t", "e", "r", "d", "a", "y">>)
    THEN [cleaned EXCEPT !["Posted_Ago"] = OneDaysAgo]
    ELSE cleaned

\* lines 480-483
CleanPosted(cleaned) ==
    IF Get(cleaned, "Posted_Ago", EmptyStr) # EmptyStr
       /\ Contains(Lower(Strip(cleaned["Posted_Ago"])), <<"y", "e", "s", "t", "e", "r", "d", "a", "y">>)
    THEN [cleaned EXCEPT !["Posted_Ago"] = OneDaysAgo]
    ELSE cleaned

CleanEmployes_stripped(cleaned) ==
    IF Get(cleaned, "Employes_Count", EmptyStr) # EmptyStr
    THEN [cleaned EXCEPT !["Employes_Count"] =
             IF FirstDigitRun(Strip(cleaned["Employes_Count"])) # None
             THEN FirstDigitRun(Strip(cleaned["Employes_Count"]))[1]
             ELSE Strip(cleaned["Employes_Count"])]
    ELSE cleaned

\* lines 486-491
CleanEmployes(cleaned) ==
    IF Get(cleaned, "Employes_Count", EmptyStr) # EmptyStr
       /\ FirstDigitRun(Strip(cleaned["Employes_Count"])) # None
    THEN [cleaned EXCEPT !["Employes_Count"] = FirstDigitRun(Strip(cleaned["Employes_Count"]))[1]]
    ELSE cleaned

\* lines 471-493
clean_job_data(job_data) == CleanEmployes(CleanPosted(job_data))

ArgAfterClean_alias(job_data) == clean_job_data(job_data)

\* line 477: the function writes to a shallow copy, the caller's dict keeps
\* its entries
ArgAfterClean(job_data) == job_data

(***************************************************************************)
(* Job variant: the paging loop, deduplication and the CSV                 *)
(***************************************************************************)
max_pages == 10

\* line 166: a selector's cards are taken when there are more than this many
MinCards == 5

\* bounds of the job pipeline: the number of listing cards of a run, and the
\* number of pages of a run that shows listing cards (a run that shows blank
\* cards only goes on to the safety limit)
MaxJobStream == 3

MaxListingPages == 1

NoSel(n) == [i \in 1..n |-> None]

JobCard(title, posted, employee, link) ==
    [title    |-> [NoSel(NumTitleSelectors) EXCEPT ![1] = title],
     company  |-> NoSel(NumCompanySelectors),
     slogan   |-> NoSel(NumSloganSelectors),
     allText  |-> Some(IF title = None THEN EmptyStr ELSE title[1]),
     location |-> NoSel(NumLocationSelectors),
     industry |-> NoSel(NumIndustrySelectors),
     employee |-> [NoSel(NumEmployeeSelectors) EXCEPT ![1] = employee],
     posted   |-> [NoSel(NumPostedSelectors) EXCEPT ![1] = posted],
     link     |-> [NoSel(NumLinkSelectors) EXCEPT ![1] = link]]

\* an element the card selector matched that is no listing: it has no heading,
\* and an anchor to a job
BlankCard == JobCard(None, None, None, Some(Some(<<"/", "j", "o", "b", "s", "/", "0">>)))

BlankJob == ExtractJobData(BlankCard)

JobCards ==
    { JobCard(Some(<<"C", "h", "e", "f">>), Some(<<"Y", "e", "s", "t", "e", "r", "d", "a", "y">>), None, Some(Some(<<"/", "j", "o", "b", "s", "/", "1">>))),
      JobCard(Some(<<"B", "o", "s", "s">>), None, None, Some(Some(<<"/", "j", "o", "b", "s", "/", "1">>))),
      [JobCard(Some(<<"C", "h", "e", "f">>), None, None, Some(Some(<<"/", "j", "o", "b", "s", "/", "9">>))) EXCEPT !.allText = None],
      JobCard(Some(<<"B", "o", "s", "s">>), None, Some(<<"2", "5", " ", "e", "m", "p", "l", "o", "y", "e", "e", "s">>), Some(Some(<<"/", "j", "o", "b", "s", "/", "2">>))) }

\* extract_job_data on each of these cards
JobCardData == [c \in JobCards \cup {BlankCard} |-> ExtractJobData(c)]

\* a page: the cards t followed by blank cards up to MinCards + 1 cards
Padded(t) ==
    t \o [i \in 1..(IF Len(t) > MinCards THEN 0 ELSE MinCards + 1 - Len(t)) |-> BlankCard]

NonBlank(records) == SelectSeq(records, LAMBDA r : r # BlankJob)

\* lines 136-138
JobBegin ==
    /\ variant = "job"
    /\ pc = "start"
    /\ all_jobs_data' = <<>>
    /\ page_number' = 1
    /\ pc' = "paging"
    /\ UNCHANGED << variant, products, seen_urls, target_count, last_count, no_change_count,
                    new_products, zeroRun, stream, extracted, unique_data, csv_rows >>
    /\ UNCHANGED extractVars
    /\ UNCHANGED postVars

KeepJob_all(job_data) == TRUE

\* line 181: if job_data and job_data.get('Job_Title')
KeepJob(job_data) == Get(job_data, "Job_Title", EmptyStr) # EmptyStr

\* lines 142-226: one iteration of the paging loop.  job_cards is None when no
\* card selector matches more than MinCards elements; has_next is what the
\* search for an enabled next-page button gives.
ScrapePage ==
    /\ variant = "job"
    /\ pc = "paging"
    /\ page_number <= max_pages
    /\ \/ /\ pc' = "collected"        \* lines 173-175: no job cards
          /\ UNCHANGED << all_jobs_data, page_number, extracted >>
       \/ \E n \in 0..MaxJobStream :
            /\ Len(NonBlank(extracted)) + n <= MaxJobStream
            /\ page_number <= MaxListingPages \/ (n = 0 /\ NonBlank(extracted) = <<>>)
            /\ \E t \in [1..n -> JobCards] : \E has_next \in BOOLEAN :
                 LET job_cards == Padded(t)
                     job_datas == [i \in 1..Len(job_cards) |-> JobCardData[job_cards[i]]]
                 IN  /\ extracted' = extracted \o job_datas
                     /\ all_jobs_data' = all_jobs_data \o SelectSeq(job_datas, KeepJob)
                     /\ IF has_next
                        THEN page_number' = page_number + 1 /\ pc' = pc
                        ELSE page_number' = page_number /\ pc' = "collected"
    /\ UNCHANGED << variant, products, seen_urls, target_count, last_count, no_change_count,
                    new_products, zeroRun, stream, unique_data, csv_rows >>
    /\ UNCHANGED extractVars
    /\ UNCHANGED postVars

\* line 142 false: the safety limit ends the loop
PagingExit ==
    /\ variant = "job"
    /\ pc = "paging"
    /\ ~(page_number <= max_pages)
    /\ pc' = "collected"
    /\ UNCHANGED << variant, products, seen_urls, target_count, last_count, no_change_count,
                    new_products, zeroRun, stream, all_jobs_data, page_number, extracted,
                    unique_data, csv_rows >>
    /\ UNCHANGED extractVars
    /\ UNCHANGED postVars

KeepLink_first(st, job) ==
    LET link == Get(job, "Job_Link", EmptyStr)
    IN  link # EmptyStr /\ link \notin st.seen_links

\* lines 242-247: the job is appended when its link is new or empty
KeepLink(st, job) ==
    LET link == Get(job, "Job_Link", EmptyStr)
    IN  (link # EmptyStr /\ link \notin st.seen_links) \/ link = EmptyStr

\* lines 241-247: one iteration of the loop over cleaned_data
AddJob(st, job) ==
    LET link == Get(job, "Job_Link", EmptyStr)
    IN  IF KeepLink(st, job)
        THEN [seen_links  |-> IF link # EmptyStr THEN st.seen_links \cup {link}
                              ELSE st.seen_links,
              unique_data |-> Append(st.unique_data, job)]
        ELSE st

\* lines 239-247
RECURSIVE AddJobs(_, _)
AddJobs(st, cleaned_data) ==
    IF cleaned_data = <<>> THEN st
    ELSE AddJobs(AddJob(st, Head(cleaned_data)), Tail(cleaned_data))

Deduplicate(cleaned_data) == AddJobs([seen_links |-> {}, unique_data |-> <<>>], cleaned_data).unique_data

\* line 521: the row written for one job
CsvRow(job) == [i \in 1..Len(JobHeaders) |-> Get(job, JobHeaders[i], EmptyStr)]

\* lines 496-524
save_to_csv(data) == [i \in 1..Len(data) |-> CsvRow(data[i])]

\* lines 236-251
CleanDedupSave ==
    /\ variant = "job"
    /\ pc = "collected"
    /\ LET cleaned_data == [i \in 1..Len(all_jobs_data) |-> clean_job_data(all_jobs_data[i])]
       IN  /\ unique_data' = Deduplicate(cleaned_data)
           /\ csv_rows' = save_to_csv(Deduplicate(cleaned_data))
    /\ pc' = "saved"
    /\ UNCHANGED << variant, products, seen_urls, target_count, last_count, no_change_count,
                    new_products, zeroRun, stream, all_jobs_data, page_number, extracted >>
    /\ UNCHANGED extractVars
    /\ UNCHANGED postVars

(***************************************************************************)
(* The extractors as pure functions: the raw cards they are applied to     *)
(***************************************************************************)
\* bounds: selectors of one list that find an element; leaf price elements
MaxHits == 2

MaxPriceEls == 2

\* what n selectors find, at most MaxHits of them an element with a text of texts
Found(n, texts) ==
    {v \in [1..n -> {None} \cup {Some(t) : t \in texts}] :
        Cardinality({i \in 1..n : v[i] # None}) <= MaxHits}

LabelTexts == {<<" ">>, <<"N", "e", "w">>, <<" ", "H", "o", "t", " ">>}

PriceElTexts == {<<"₱", "1", "0", "0">>, <<" ", "₱", "8", "0", " ">>, <<"₱", " ", "9">>, <<"S", "a", "l", "e">>}

OtherTexts == {<<"A", "i", "r">>, <<"A", "i", "r", " ", "₱", "7", "0">>, <<"₱", "6", "0", " ", "₱", "5", "0", " ", "₱", "4", "0">>}

AttrValues == {None, Some(None), Some(Some(<<"/", "t", "/", "a">>))}

PlainNikeCard ==
    [link |-> Some(Some(<<"/", "t", "/", "a">>)), img |-> None, labels |-> NoLabels, badge |-> None,
     name |-> None, desc |-> None, priceWrap |-> FALSE, priceEls |-> <<>>,
     strike |-> FALSE, otherText |-> EmptyStr]

NikeInputs ==
    {[PlainNikeCard EXCEPT !.labels = l, !.badge = b] :
        l \in Found(NumLabelSelectors, LabelTexts), b \in {None, Some(<<" ">>), Some(<<" ", "S", "a", "l", "e", " ">>)}}
    \cup
    UNION {{[PlainNikeCard EXCEPT !.priceEls = p, !.priceWrap = w, !.strike = s, !.otherText = o] :
              p \in [1..n -> PriceElTexts], w \in BOOLEAN, s \in BOOLEAN, o \in OtherTexts} :
           n \in 0..MaxPriceEls}
    \cup
    {[PlainNikeCard EXCEPT !.link = a, !.img = i, !.name = t, !.desc = t] :
        a \in AttrValues, i \in AttrValues, t \in {None, Some(<<" ", "A", "i", "r", " ">>)}}

TitleTexts == {<<"C", "E", "O">>, <<" ", " ", " ", " ", " ">>, <<" ", "C", "h", "e", "f", " ">>, <<"B", "o", "s", "s">>}

CompanyTexts == {<<"C", "h", "e", "f">>, <<"A", "c", "m", "e", " ">>, <<" ">>}

PlainTexts == {<<" ">>, <<" ", "N", "Y", "C", " ">>}

EmployeeTexts == {<<"B", "i", "g">>, <<"9", " ", "e", "m", "p", "l", "o", "y", "e", "e", "s">>, <<"E", "m", "p", "l", "o", "y", "e", "e", "s">>, <<" ", " ", "2", "-", "5">>}

PostedTexts == {<<"Y", "e", "s", "t", "e", "r", "d", "a", "y">>, <<"S", "o", "o", "n">>, <<" ", "3", " ", "d", "a", "y", "s", " ", "a", "g", "o">>, <<" ">>}

HrefTexts == {<<>>, <<"/", "j", "o", "b", "s", "/", "1">>, <<"h", "t", "t", "p", ":", "/", "/", "x", "/", "j", "o", "b", "s", "/", "2">>, <<"j", "o", "b", "s", "/", "3">>}

AllTexts == {None, Some(<<"C", "h", "e", "f", "\n", "F", "u", "l", "l", "-", "T", "i", "m", "e", "\n", " ", "R", "e", "m", "o", "t", "e", " ", "\n", "A", "C", "M", "E">>)}

\* what the link selectors find: no element, an anchor without href, an anchor with href
FoundLinks ==
    {v \in [1..NumLinkSelectors -> {None, Some(None)} \cup {Some(Some(t)) : t \in HrefTexts}] :
        Cardinality({i \in 1..NumLinkSelectors : v[i] # None}) <= MaxHits}

PlainJobCard == [BlankCard EXCEPT !.link = NoSel(NumLinkSelectors)]

\* the cards in which one selector list finds elements, with card text a
JobInputsWith(a) ==
    {[PlainJobCard EXCEPT !.title = v, !.allText = a] : v \in Found(NumTitleSelectors, TitleTexts)}
    \cup {[PlainJobCard EXCEPT !.title[1] = Some(<<"C", "h", "e", "f">>), !.company = v, !.allText = a] :
            v \in Found(NumCompanySelectors, CompanyTexts)}
    \cup {[PlainJobCard EXCEPT !.slogan = v, !.allText = a] : v \in Found(NumSloganSelectors, PlainTexts)}
    \cup {[PlainJobCard EXCEPT !.location = v, !.allText = a] : v \in Found(NumLocationSelectors, PlainTexts)}
    \cup {[PlainJobCard EXCEPT !.industry = v, !.allText = a] : v \in Found(NumIndustrySelectors, PlainTexts)}
    \cup {[PlainJobCard EXCEPT !.employee = v, !.allText = a] : v \in Found(NumEmployeeSelectors, EmployeeTexts)}
    \cup {[PlainJobCard EXCEPT !.posted = v, !.allText = a] : v \in Found(NumPostedSelectors, PostedTexts)}
    \cup {[PlainJobCard EXCEPT !.link = v, !.allText = a] : v \in FoundLinks}

\* the product card extractor applied to the card
ExtractProductStep ==
    /\ epc = "input"
    /\ card.kind = "product"
    /\ rec' = [kind |-> "product", record |-> ExtractProductCard(card.raw)]
    /\ epc' = "extracted"
    /\ UNCHANGED card
    /\ UNCHANGED pipelineVars
    /\ UNCHANGED postVars

\* extract_job_data applied to the card
ExtractJobStep ==
    /\ epc = "input"
    /\ card.kind = "job"
    /\ rec' = [kind |-> "job", record |-> ExtractJobData(card.raw)]
    /\ epc' = "extracted"
    /\ UNCHANGED card
    /\ UNCHANGED pipelineVars
    /\ UNCHANGED postVars

(***************************************************************************)
(* clean_job_data as a pure function: the records it is applied to         *)
(***************************************************************************)
PostedValues ==
    {<<>>, <<"Y", "e", "s", "t", "e", "r", "d", "a", "y">>, <<" ", "Y", "E", "S", "T", "E", "R", "D", "A", "Y", ",", " ", "3", ":", "0", "0", "p", "m", " ">>, <<"y", "e", "s", "t", "e", "r", " ", "d", "a", "y">>,
     <<" ", "3", " ", "d", "a", "y", "s", " ", "a", "g", "o", " ">>, <<"1", " ", "d", "a", "y", "s", " ", "a", "g", "o">>}

EmployesValues ==
    {<<>>, <<"4", "5", " ", "e", "m", "p", "l", "o", "y", "e", "e", "s">>, <<"a", "b", "o", "u", "t", " ", "1", "0", "-", "1", "5", " ", "e", "m", "p", "l", "o", "y", "e", "e", "s">>, <<" ", "B", "i", "g", " ">>, <<" ", "7", " ">>, <<"1", "0">>}

\* a record as extract_job_data returns it, and dicts that lack the cleaned keys
CleanBase == [EmptyJob EXCEPT !["Job_Title"] = <<"C", "h", "e", "f">>, !["Job_Link"] = <<"/", "j", "o", "b", "s", "/", "1">>]

CleanInputs ==
    {[CleanBase EXCEPT !["Posted_Ago"] = p, !["Employes_Count"] = e] :
        p \in PostedValues, e \in EmployesValues}
    \cup {[k \in JobFields \ {"Posted_Ago"} |-> CleanBase[k]],
          [k \in JobFields \ {"Employes_Count"} |-> <<"2", "5", " ", "e", "m", "p", "l", "o", "y", "e", "e", "s">>],
          [k \in {"Job_Title"} |-> <<"Y", "e", "s", "t", "e", "r", "d", "a", "y", " ", "5">>]}

\* clean_job_data applied to the record
CleanStep ==
    /\ epc = "input"
    /\ card.kind = "jobrec"
    /\ rec' = [kind |-> "cleaned", arg |-> ArgAfterClean(card.raw),
               record |-> clean_job_data(card.raw)]
    /\ epc' = "cleaned"
    /\ UNCHANGED card
    /\ UNCHANGED pipelineVars
    /\ UNCHANGED postVars

\* clean_job_data applied to its own result
CleanAgainStep ==
    /\ epc = "cleaned"
    /\ rec' = [kind |-> "recleaned", arg |-> ArgAfterClean(rec.record),
               once |-> rec.record, record |-> clean_job_data(rec.record)]
    /\ epc' = "recleaned"
    /\ UNCHANGED card
    /\ UNCHANGED pipelineVars
    /\ UNCHANGED postVars

(***************************************************************************)
(* Python numbers: int(), float(), comparison, list.sort                   *)
(*                                                                         *)
(* A number is held as kind "num" with value n / 10^d (an int has d = 0),  *)
(* kind "inf" with sign n, or kind "nan".  Decimal texts of the lengths    *)
(* used here convert to distinct doubles in the order of their values, so  *)
(* comparing the decimals is comparing the floats.  The texts the model    *)
(* feeds to int() and float() hold no exponent and no underscore.          *)
(***************************************************************************)
Num(n, d) == [k |-> "num", n |-> n, d |-> d]

NaN == [k |-> "nan", n |-> 0, d |-> 0]

Inf(s) == [k |-> "inf", n |-> s, d |-> 0]

RECURSIVE Pow10(_)
Pow10(e) == IF e = 0 THEN 1 ELSE 10 * Pow10(e - 1)

DigitVal(c) ==
    CASE c = "0" -> 0 [] c = "1" -> 1 [] c = "2" -> 2 [] c = "3" -> 3 [] c = "4" -> 4
      [] c = "5" -> 5 [] c = "6" -> 6 [] c = "7" -> 7 [] c = "8" -> 8 [] c = "9" -> 9

AllDigits(s) == \A i \in 1..Len(s) : s[i] \in Digits

RECURSIVE NatOf(_)
NatOf(s) == IF s = <<>> THEN 0
            ELSE 10 * NatOf(SubSeq(s, 1, Len(s) - 1)) + DigitVal(s[Len(s)])

\* the sign a numeral starts with, and the numeral without it
SignOf(t) == IF t # <<>> /\ Head(t) = "-" THEN -1 ELSE 1

Unsigned(t) == IF t # <<>> /\ Head(t) \in {"-", "+"} THEN Tail(t) ELSE t

\* int(text): None stands for ValueError
ParseInt(text) ==
    LET body == Unsigned(Strip(text))
    IN  IF body # <<>> /\ AllDigits(body)
        THEN Some(Num(SignOf(Strip(text)) * NatOf(body), 0))
        ELSE None

\* float(text): None stands for ValueError
ParseFloat(text) ==
    LET t    == Strip(text)
        body == Unsigned(t)
        word == Lower(body)
        ip   == SubSeq(body, 1, RunLen(body, Digits))
        rest == SubSeq(body, Len(ip) + 1, Len(body))
        fp   == IF rest # <<>> /\ Head(rest) = "." THEN Tail(rest) ELSE <<>>
    IN  IF word \in {<<"i", "n", "f">>, <<"i", "n", "f", "i", "n", "i", "t", "y">>} THEN Some(Inf(SignOf(t)))
        ELSE IF word = <<"n", "a", "n">> THEN Some(NaN)
        ELSE IF rest = <<>> THEN
                 IF ip # <<>> THEN Some(Num(SignOf(t) * NatOf(ip), 0)) ELSE None
        ELSE IF Head(rest) = "." /\ AllDigits(fp) /\ (ip # <<>> \/ fp # <<>>)
             THEN Some(Num(SignOf(t) * NatOf(ip \o fp), Len(fp)))
        ELSE None

\* -x
Neg(x) == [x EXCEPT !.n = -x.n]

\* x == y on numbers: nan equals nothing
NumEq(x, y) ==
    /\ x.k # "nan" /\ y.k # "nan"
    /\ IF x.k = "num" /\ y.k = "num" THEN x.n * Pow10(y.d) = y.n * Pow10(x.d)
       ELSE x.k = y.k /\ x.n = y.n

\* x < y on numbers: nan is below nothing and nothing is below nan
NumLt(x, y) ==
    /\ x.k # "nan" /\ y.k # "nan"
    /\ CASE x.k = "num" /\ y.k = "num" -> x.n * Pow10(y.d) < y.n * Pow10(x.d)
         [] x.k = "inf" /\ y.k = "num" -> x.n < 0
         [] x.k = "num" /\ y.k = "inf" -> y.n > 0
         [] OTHER -> x.n < y.n

\* x > y on numbers
NumGt(x, y) == NumLt(y, x)

\* a < b on sort keys: a key is a tuple of numbers (a bare number compares as
\* the 1-tuple of it); the first position where the keys are unequal decides
KeyLt(a, b) ==
    LET diff == {i \in 1..Len(a) : ~NumEq(a[i], b[i])}
    IN  diff # {} /\ NumLt(a[CHOOSE i \in diff : \A j \in diff : i <= j],
                           b[CHOOSE i \in diff : \A j \in diff : i <= j])

Reverse(s) == [i \in 1..Len(s) |-> s[Len(s) + 1 - i]]

\* list.sort, count_run: the length of the run the list starts with, negative
\* when the run is strictly descending; order is a list of positions of keys
RECURSIVE RunEnd(_, _, _, _)
RunEnd(keys, order, i, descending) ==
    IF i > Len(order) THEN i - 1
    ELSE IF KeyLt(keys[order[i]], keys[order[i - 1]]) = descending
         THEN RunEnd(keys, order, i + 1, descending)
         ELSE i - 1

\* list.sort, binarysort: where the pivot goes among order[lo+1 .. hi]
RECURSIVE InsertAt(_, _, _, _, _)
InsertAt(keys, order, pivot, lo, hi) ==
    IF lo >= hi THEN lo
    ELSE LET p == lo + ((hi - lo) \div 2)
         IN  IF KeyLt(keys[pivot], keys[order[p + 1]])
             THEN InsertAt(keys, order, pivot, lo, p)
             ELSE InsertAt(keys, order, pivot, p + 1, hi)

\* list.sort, binarysort: order[1..done] is sorted and order[done+1] is put
\* in its place
InsertNext(keys, order, done) ==
    LET pivot == order[done + 1]
        at    == InsertAt(keys, order, pivot, 0, done)
    IN  SubSeq(order, 1, at) \o <<pivot>> \o SubSeq(order, at + 1, done)
            \o SubSeq(order, done + 2, Len(order))

\* list.sort, binarysort: order[1..done] is sorted, the rest is inserted
RECURSIVE BinarySort(_, _, _)
BinarySort(keys, order, done) ==
    IF done >= Len(order) THEN order
    ELSE CHOOSE sorted \in {BinarySort(keys, next, done + 1) :
                                next \in {InsertNext(keys, order, done)}} : TRUE

\* list.sort of a list of fewer than 64 elements (one run, no merge): the
\* positions of keys in sorted order
SortAscending(keys, order) ==
    IF Len(order) < 2 THEN order
    ELSE LET descending == KeyLt(keys[order[2]], keys[order[1]])
             n          == RunEnd(keys, order, 3, descending)
             run        == IF descending
                           THEN Reverse(SubSeq(order, 1, n)) \o SubSeq(order, n + 1, Len(order))
                           ELSE order
         IN  CHOOSE sorted \in {BinarySort(keys, r, n) : r \in {run}} : TRUE

\* keys.sort(reverse=...): the list is reversed before and after the sort
ListSort(keys, reverse) ==
    CHOOSE sorted \in
        {IF reverse THEN Reverse(SortAscending(ks, Reverse([i \in 1..Len(ks) |-> i])))
         ELSE SortAscending(ks, [i \in 1..Len(ks) |-> i]) : ks \in {keys}} : TRUE

(***************************************************************************)
(* Product variant: filter_and_save_products, print_top_10_expensive,      *)
(* create_top_20_rating_review, as main calls them                         *)
(***************************************************************************)
\* line 306: products_with_price[:10]
TopExpensive == 10

\* line 337: eligible_products[:20]
TopRated == 20

\* line 320: review_count > 150
MinReviews == 150

\* lines 248-254
ProductHeaders ==
    << "Product_URL", "Product_Image_URL", "Product_Tagging", "Product_Name",
       "Product_Description", "Original_Price", "Discount_Price", "Sizes_Available",
       "Vouchers", "Available_Colors", "Color_Shown", "Style_Code", "Rating_Score",
       "Review_Count" >>

\* lines 262-277
ProductRow(product) ==
    << product.productUrl, product.imageUrl, product.tagging, product.productName,
       product.description, product.originalPrice, product.discountPrice,
       product.sizesAvailable, product.vouchers, product.availableColors,
       product.colorShown, product.styleCode, product.ratingScore, product.reviewCount >>

\* line 226
has_tagging(product) == product.tagging # EmptyStr /\ Strip(product.tagging) # EmptyStr

has_discount_tagged(product) ==
    /\ product.discountPrice # EmptyStr /\ Strip(product.discountPrice) # EmptyStr
    /\ has_tagging(product)

\* line 229
has_discount(product) ==
    product.discountPrice # EmptyStr /\ Strip(product.discountPrice) # EmptyStr

\* text.replace(c, '')
Remove(text, c) == SelectSeq(text, LAMBDA x : x # c)

\* lines 294-295: the price of a product, None when float() raises
PriceOf(product) == ParseFloat(Strip(Remove(Remove(product.discountPrice, Peso), ",")))

\* lines 291-298
products_with_price(prods) ==
    LET priced == SelectSeq(prods, LAMBDA p : PriceOf(p) # None)
    IN  [i \in 1..Len(priced) |-> [product |-> priced[i], price |-> PriceOf(priced[i])[1]]]

FirstN(s, n) == SubSeq(s, 1, IF Len(s) < n THEN Len(s) ELSE n)

\* lines 300-309: what is listed (nothing when the function returns at line 302)
Top10Of(pwp) ==
    LET order  == ListSort([i \in 1..Len(pwp) |-> <<pwp[i].price>>], TRUE)
        shown  == FirstN(order, TopExpensive)
    IN  [i \in 1..Len(shown) |->
            [pos |-> i, product |-> pwp[shown[i]].product, price |-> pwp[shown[i]].price]]

Top10Listing(prods) ==
    CHOOSE listing \in {Top10Of(pwp) : pwp \in {products_with_price(prods)}} : TRUE

\* line 317: the field is int()ed when it is not empty and counts as 0 when
\* it is; None when the conversion raises
ReviewsOf(product) ==
    IF product.reviewCount # EmptyStr THEN ParseInt(product.reviewCount) ELSE Some(Num(0, 0))

RatingOf_lenient(product) ==
    IF product.ratingScore # EmptyStr /\ ParseFloat(product.ratingScore) # None
    THEN ParseFloat(product.ratingScore)
    ELSE Some(Num(0, 0))

\* line 318
RatingOf(product) ==
    IF product.ratingScore # EmptyStr THEN ParseFloat(product.ratingScore) ELSE Some(Num(0, 0))

\* lines 316-327: neither conversion raises and review_count > 150
IsEligible(product) ==
    /\ ReviewsOf(product) # None
    /\ RatingOf(product) # None
    /\ NumGt(ReviewsOf(product)[1], Num(MinReviews, 0))

\* lines 313-327
eligible_products(prods) ==
    LET el == SelectSeq(prods, IsEligible)
    IN  [i \in 1..Len(el) |->
            [product |-> el[i], rating |-> RatingOf(el[i])[1], reviews |-> ReviewsOf(el[i])[1]]]

\* line 334
SortedOf(el) ==
    LET order == ListSort([i \in 1..Len(el) |-> <<Neg(el[i].rating), Neg(el[i].reviews)>>], FALSE)
    IN  [i \in 1..Len(el) |-> el[order[i]]]

SortedEligible(prods) ==
    CHOOSE sorted \in {SortedOf(el) : el \in {eligible_products(prods)}} : TRUE

\* lines 336-353, on the first 20 of the sorted list
RankedOf(top) ==
    LET rank[i \in 1..Len(top)] ==
            IF i = 1 THEN 1
            ELSE IF NumEq(top[i].rating, top[i - 1].rating)
                    /\ NumEq(top[i].reviews, top[i - 1].reviews)
                 THEN rank[i - 1]
                 ELSE i
    IN  [i \in 1..Len(top) |->
            [rank |-> rank[i], product_name |-> top[i].product.productName,
             product_url |-> top[i].product.productUrl,
             rating_score |-> top[i].rating, review_count |-> top[i].reviews]]

ranked_products(prods) ==
    CHOOSE ranked \in {RankedOf(top) : top \in {FirstN(SortedEligible(prods), TopRated)}} : TRUE

\* main line 377: filter_and_save_products, and the test of line 383
FilterAndSave ==
    /\ variant = "product"
    /\ pc = "scrolled"
    /\ LET valid == SelectSeq(products, has_discount)
       IN  /\ empty_tagging_count' = empty_tagging_count
                 + Len(SelectSeq(products, LAMBDA p : ~has_tagging(p)))
           /\ valid_products' = valid
           /\ products_csv' = IF valid # <<>>
                              THEN Some([i \in 1..Len(valid) |-> ProductRow(valid[i])])
                              ELSE None
           /\ pc' = IF valid # <<>> THEN "filtered" ELSE "done"
    /\ UNCHANGED << top10, top20_csv >>
    /\ UNCHANGED pipelineVarsButPc
    /\ UNCHANGED extractVars

\* main line 384: print_top_10_expensive(valid_products)
PrintTop10 ==
    /\ variant = "product"
    /\ pc = "filtered"
    /\ top10' = Top10Listing(valid_products)
    /\ pc' = "printed"
    /\ UNCHANGED << empty_tagging_count, valid_products, products_csv, top20_csv >>
    /\ UNCHANGED pipelineVarsButPc
    /\ UNCHANGED extractVars

\* main line 385: create_top_20_rating_review(valid_products)
CreateTop20 ==
    /\ variant = "product"
    /\ pc = "printed"
    /\ top20_csv' = IF eligible_products(valid_products) = <<>> THEN None
                    ELSE Some(ranked_products(valid_products))
    /\ pc' = "done"
    /\ UNCHANGED << empty_tagging_count, valid_products, products_csv, top10 >>
    /\ UNCHANGED pipelineVarsButPc
    /\ UNCHANGED extractVars

(***************************************************************************)
(* The product post-processing applied to given product lists              *)
(***************************************************************************)
\* bounds: length of the enumerated lists; length of the one long list
MaxRankLen == 3

LongLen == 22

DigitText == << "0", "1", "2", "3", "4", "5", "6", "7", "8", "9" >>

\* str(n)
RECURSIVE NatText(_)
NatText(n) == IF n < 10 THEN <<DigitText[n + 1]>>
              ELSE NatText(n \div 10) \o <<DigitText[(n % 10) + 1]>>

\* a product dict as extract_products_from_page appends it
PlainProduct ==
    WithDetailFields([productUrl |-> EmptyStr, imageUrl |-> EmptyStr, tagging |-> EmptyStr,
                      productName |-> <<"A", "i", "r">>, description |-> EmptyStr,
                      originalPrice |-> <<"₱", "2", ",", "0", "0", "0">>, discountPrice |-> <<"₱", "1", "0">>])

\* products that differ in price and tagging
PricedProducts ==
    {[PlainProduct EXCEPT !.discountPrice = x[1], !.tagging = x[2]] :
        x \in { <<<<>>, <<>>>>, <<<<>>, <<"N", "e", "w">>>>, <<<<" ", " ">>, <<"N", "e", "w">>>>,
                <<<<"₱", "1", ",", "0", "0", "0", ".", "0", "0">>, <<" ", " ">>>>, <<<<" ", "₱", "1", ",", "0", "0", "0", ".", "0", "1">>, <<"N", "e", "w">>>>,
                <<<<"₱", "9", "9", "9", ".", "9", "9">>, <<>>>>, <<<<"₱", "1", "0", "0", "0">>, <<"N", "e", "w">>>>,
                <<<<"N", "/", "A">>, <<>>>>, <<<<"₱", "N", "a", "N">>, <<>>>> }}

\* products that differ in rating and review count
RatedProducts ==
    {[PlainProduct EXCEPT !.ratingScore = x[1], !.reviewCount = x[2]] :
        x \in { <<<<"4", ".", "8">>, <<"2", "0", "0">>>>, <<<<"4", ".", "8", "0">>, <<" ", "2", "0", "0">>>>, <<<<"4", ".", "7">>, <<"5", "0", "0">>>>,
                <<<<"4", ".", "8">>, <<"1", "5", "0">>>>, <<<<>>, <<"2", "0", "0">>>>, <<<<"n", "/", "a">>, <<"5", "0", "0">>>>,
                <<<<"4", ".", "9">>, <<>>>>, <<<<"5">>, <<"1", "k">>>>, <<<<"n", "a", "n">>, <<"3", "0", "0">>>> }}

\* the list with the i-th product at productUrl /t/i: the URLs held are distinct
Numbered(prods) ==
    [i \in 1..Len(prods) |-> [prods[i] EXCEPT !.productUrl = NikeBase \o <<"/", "t", "/">> \o NatText(i)]]

\* LongLen products, every one priced and rated: more than either ranking lists
LongList ==
    [i \in 1..LongLen |->
        [PlainProduct EXCEPT !.discountPrice = <<Peso>> \o NatText(100 + ((i * 7) % 10)),
                             !.ratingScore = IF i % 2 = 0 THEN <<"4", ".", "8">> ELSE <<"4", ".", "7">>,
                             !.reviewCount = NatText(MinReviews + 1 + ((i * 3) % 5))]]

\* self.products is one of the given lists
RankInput ==
    \/ \E n \in 0..MaxRankLen : \E l \in [1..n -> PricedProducts] : products = Numbered(l)
    \/ \E n \in 1..MaxRankLen : \E l \in [1..n -> RatedProducts] : products = Numbered(l)
    \/ products = Numbered(LongList)

(***************************************************************************)
(* The pipelines                                                           *)
(***************************************************************************)
NoCard == [kind |-> "none"]

Init ==
    /\ variant \in {"product", "job"}
    /\ pc = "start"
    /\ products = <<>>
    /\ seen_urls = {}
    /\ target_count \in (IF variant = "product" THEN 0..MaxTarget ELSE {0})
    /\ last_count = 0
    /\ no_change_count = 0
    /\ new_products = 0
    /\ zeroRun = 0
    /\ stream = <<>>
    /\ all_jobs_data = <<>>
    /\ page_number = 0
    /\ extracted = <<>>
    /\ unique_data = <<>>
    /\ csv_rows = <<>>
    /\ empty_tagging_count = 0
    /\ valid_products = <<>>
    /\ products_csv = None
    /\ top10 = <<>>
    /\ top20_csv = None
    /\ card = NoCard
    /\ rec = NoCard
    /\ epc = "off"

Next ==
    \/ ScrollBegin
    \/ ScrollBatch
    \/ ScrollExit
    \/ FilterAndSave
    \/ PrintTop10
    \/ CreateTop20
    \/ JobBegin
    \/ ScrapePage
    \/ PagingExit
    \/ CleanDedupSave

Spec == Init /\ [][Next]_vars

\* scroll_and_load alone, with the loop kept running: every await of the
\* loop body returns
InitScroll == Init /\ variant = "product"

NextScroll ==
    \/ ScrollBegin
    \/ ScrollBatch
    \/ ScrollExit

SpecScroll ==
    /\ InitScroll /\ [][NextScroll]_vars
    /\ WF_vars(ScrollBegin) /\ WF_vars(ScrollBatch) /\ WF_vars(ScrollExit)

InitExtract ==
    /\ variant = "none"
    /\ pc = "off"
    /\ products = <<>>
    /\ seen_urls = {}
    /\ target_count = 0
    /\ last_count = 0
    /\ no_change_count = 0
    /\ new_products = 0
    /\ zeroRun = 0
    /\ stream = <<>>
    /\ all_jobs_data = <<>>
    /\ page_number = 0
    /\ extracted = <<>>
    /\ unique_data = <<>>
    /\ csv_rows = <<>>
    /\ empty_tagging_count = 0
    /\ valid_products = <<>>
    /\ products_csv = None
    /\ top10 = <<>>
    /\ top20_csv = None
    /\ \/ card \in {[kind |-> "product", raw |-> c] : c \in NikeInputs}
       \/ \E a \in AllTexts : card \in {[kind |-> "job", raw |-> c] : c \in JobInputsWith(a)}
       \/ card \in {[kind |-> "jobrec", raw |-> r] : r \in CleanInputs}
    /\ rec = NoCard
    /\ epc = "input"

NextExtract ==
    \/ ExtractProductStep
    \/ ExtractJobStep
    \/ CleanStep
    \/ CleanAgainStep

SpecExtract == InitExtract /\ [][NextExtract]_vars

InitRank ==
    /\ variant = "product"
    /\ pc = "scrolled"
    /\ RankInput
    /\ seen_urls = {}
    /\ target_count = 0
    /\ last_count = 0
    /\ no_change_count = 0
    /\ new_products = 0
    /\ zeroRun = 0
    /\ stream = <<>>
    /\ all_jobs_data = <<>>
    /\ page_number = 0
    /\ extracted = <<>>
    /\ unique_data = <<>>
    /\ csv_rows = <<>>
    /\ empty_tagging_count = 0
    /\ valid_products = <<>>
    /\ products_csv = None
    /\ top10 = <<>>
    /\ top20_csv = None
    /\ card = NoCard
    /\ rec = NoCard
    /\ epc = "off"

NextRank ==
    \/ FilterAndSave
    \/ PrintTop10
    \/ CreateTop20

SpecRank == InitRank /\ [][NextRank]_vars

(***************************************************************************)
(* Properties                                                              *)
(***************************************************************************)
Indices(s) == 1..Len(s)

\* the elements of s at the indices of idx, in order
RECURSIVE PickFrom(_, _, _)
PickFrom(s, idx, i) ==
    IF i > Len(s) THEN <<>>
    ELSE (IF i \in idx THEN <<s[i]>> ELSE <<>>) \o PickFrom(s, idx, i + 1)

\* the indices of s that hold the first occurrence of a value of field key
FirstOf(s, key) == {i \in Indices(s) : \A j \in 1..(i - 1) : s[j][key] # s[i][key]}

EmptyOf(s, key) == {i \in Indices(s) : s[i][key] = EmptyStr}

HeldWith(s, key, value) == {i \in Indices(s) : s[i][key] = value}

cleanedJobs == [i \in Indices(all_jobs_data) |-> clean_job_data(all_jobs_data[i])]

\* C1: no two records of the accumulated collection (products, unique_data)
\* share a non-empty identity (productUrl, Job_Link), and seen_urls is exactly
\* the set of the productUrl values held in products.
C1_IdentityUnique ==
    /\ \A i, j \in Indices(products) :
         (i # j /\ products[i]["productUrl"] # EmptyStr)
            => products[i]["productUrl"] # products[j]["productUrl"]
    /\ seen_urls = {products[i]["productUrl"] : i \in Indices(products)}
    /\ \A i, j \in Indices(unique_data) :
         (i # j /\ unique_data[i]["Job_Link"] # EmptyStr)
            => unique_data[i]["Job_Link"] # unique_data[j]["Job_Link"]

\* a product URL was fed twice, in different batches, and two products are held
C1_Witness ==
    /\ pc = "scrolled"
    /\ Len(products) >= 2
    /\ \E i, j \in Indices(stream) :
         i # j /\ stream[i]["productUrl"] = stream[j]["productUrl"]
               /\ stream[i]["productUrl"] # EmptyStr /\ stream[i] # stream[j]

\* C2 as stated: in both variants every record with an empty identity is
\* retained, and each non-empty identity fed is held exactly once.
C2_EmptyIdentityRetained ==
    /\ Cardinality(EmptyOf(products, "productUrl")) = Cardinality(EmptyOf(stream, "productUrl"))
    /\ \A i \in Indices(stream) :
         stream[i]["productUrl"] # EmptyStr
            => Cardinality(HeldWith(products, "productUrl", stream[i]["productUrl"])) = 1
    /\ pc = "saved" =>
         /\ Cardinality(EmptyOf(unique_data, "Job_Link")) = Cardinality(EmptyOf(cleanedJobs, "Job_Link"))
         /\ \A i \in Indices(cleanedJobs) :
              cleanedJobs[i]["Job_Link"] # EmptyStr
                 => Cardinality(HeldWith(unique_data, "Job_Link", cleanedJobs[i]["Job_Link"])) = 1

\* C2 amended: the job variant retains every record with an empty Job_Link,
\* the product variant retains no record with an empty productUrl, and in
\* both each non-empty identity fed is held exactly once.
C2_EmptyIdentityByVariant ==
    /\ EmptyOf(products, "productUrl") = {}
    /\ \A i \in Indices(stream) :
         stream[i]["productUrl"] # EmptyStr
            => Cardinality(HeldWith(products, "productUrl", stream[i]["productUrl"])) = 1
    /\ pc = "saved" =>
         /\ Cardinality(EmptyOf(unique_data, "Job_Link")) = Cardinality(EmptyOf(cleanedJobs, "Job_Link"))
         /\ \A i \in Indices(cleanedJobs) :
              cleanedJobs[i]["Job_Link"] # EmptyStr
                 => Cardinality(HeldWith(unique_data, "Job_Link", cleanedJobs[i]["Job_Link"])) = 1

\* two jobs without a link were collected with a job that has one, and all
\* three are held
C2_Witness ==
    /\ pc = "saved"
    /\ Len(unique_data) = 3
    /\ Cardinality(EmptyOf(unique_data, "Job_Link")) = 2
    /\ Cardinality(EmptyOf(cleanedJobs, "Job_Link")) = 2

\* C3 as stated: the accumulated collection is the subsequence of the input
\* stream made of the first occurrence of each identity, in input order.
C3_FirstOccurrenceOfEachIdentity ==
    /\ products = [i \in Indices(PickFrom(stream, FirstOf(stream, "productUrl"), 1)) |->
                     WithDetailFields(PickFrom(stream, FirstOf(stream, "productUrl"), 1)[i])]
    /\ pc = "saved" => unique_data = PickFrom(cleanedJobs, FirstOf(cleanedJobs, "Job_Link"), 1)

\* C3 amended: the accumulated collection is the subsequence of the input
\* stream, in input order, made of the first occurrence of each non-empty
\* identity and, in the job variant only, of every record with an empty
\* identity; the record held for an identity is the first one fed.
C3_FirstSeenOrder ==
    /\ LET firsts == PickFrom(stream, FirstOf(stream, "productUrl") \ EmptyOf(stream, "productUrl"), 1)
       IN  products = [i \in Indices(firsts) |-> WithDetailFields(firsts[i])]
    /\ pc = "saved" =>
         unique_data = PickFrom(cleanedJobs,
                                FirstOf(cleanedJobs, "Job_Link") \cup EmptyOf(cleanedJobs, "Job_Link"), 1)

\* a URL held since an earlier batch was fed again with other data, after a
\* record without URL and before a new URL
C3_Witness ==
    /\ Len(products) >= 2
    /\ \E i, j, k \in Indices(stream) :
         /\ i < j /\ j < k
         /\ stream[i]["productUrl"] = stream[j]["productUrl"]
         /\ stream[i]["productUrl"] # EmptyStr
         /\ stream[i] # stream[j]
         /\ stream[k]["productUrl"] \notin {EmptyStr, stream[i]["productUrl"]}
    /\ \E i \in Indices(stream) : stream[i]["productUrl"] = EmptyStr

\* C4: scroll_and_load has left its loop only if the total reached the target
\* or the five most recent batches each added no record, and after a batch
\* that added a record the no-growth counter is 0.
C4_ScrollStop ==
    /\ pc = "scrolled" => (Len(products) >= target_count \/ zeroRun >= 5)
    /\ (pc \in {"scroll", "scrolled"} /\ new_products > 0) => no_change_count = 0

\* the loop ended on the plateau, below the target, after some growth
C4_Witness ==
    /\ pc = "scrolled"
    /\ Len(products) < target_count
    /\ Len(products) > 0
    /\ zeroRun >= 5

titledJobs == SelectSeq(extracted, LAMBDA e : e["Job_Title"] # EmptyStr)

cleanedOf(s) == [i \in Indices(s) |-> clean_job_data(s[i])]

\* the records of s that pass deduplication by Job_Link
PassingDedup(s) == PickFrom(s, FirstOf(s, "Job_Link") \cup EmptyOf(s, "Job_Link"), 1)

\* C5 as stated: every extracted job record reaches the CSV whatever fields
\* are empty: deduplication by Job_Link is the only gate.
C5_EveryExtractedWritten ==
    pc = "saved" =>
        csv_rows = [i \in Indices(PassingDedup(cleanedOf(extracted))) |->
                       CsvRow(PassingDedup(cleanedOf(extracted))[i])]

\* C5 amended: the CSV holds, in order, the cleaned form of every extracted
\* record with a non-empty Job_Title that passes deduplication by Job_Link;
\* a record with an empty Job_Title is never written, and the other fields
\* may be empty.
C5_TitledWritten ==
    pc = "saved" =>
        /\ csv_rows = [i \in Indices(PassingDedup(cleanedOf(titledJobs))) |->
                          CsvRow(PassingDedup(cleanedOf(titledJobs))[i])]
        /\ \A i \in Indices(csv_rows) : csv_rows[i][1] # EmptyStr

\* a card with a link and no title was extracted, and a row with an empty
\* Job_Link and an empty Posted_Ago was written
C5_Witness ==
    /\ pc = "saved"
    /\ \E i \in Indices(extracted) :
         /\ extracted[i]["Job_Title"] = EmptyStr
         /\ extracted[i]["Job_Link"] # EmptyStr
         /\ \A k \in Indices(csv_rows) : csv_rows[k][10] # extracted[i]["Job_Link"]
    /\ \E k \in Indices(csv_rows) : csv_rows[k][10] = EmptyStr /\ csv_rows[k][9] = EmptyStr
    /\ Len(csv_rows) >= 2

isProduct == epc = "extracted" /\ card.kind = "product"

isJob == epc = "extracted" /\ card.kind = "job"

\* C6: with exactly two price-element tokens the first is originalPrice and the
\* second discountPrice; with exactly one token and no strikethrough marker both
\* prices are that token; with exactly one token and a strikethrough marker
\* originalPrice is the token and discountPrice is empty.
C6_PricePair ==
    isProduct =>
        LET tokens == priceTextsOf(card.raw)
            r == rec.record
        IN  /\ Len(tokens) = 2 =>
                r.originalPrice = tokens[1] /\ r.discountPrice = tokens[2]
            /\ (Len(tokens) = 1 /\ ~card.raw.strike) =>
                r.originalPrice = tokens[1] /\ r.discountPrice = tokens[1]
            /\ (Len(tokens) = 1 /\ card.raw.strike) =>
                r.originalPrice = tokens[1] /\ r.discountPrice = EmptyStr

\* one token with a strikethrough marker, in a card whose text holds a price
C6_Witness ==
    /\ isProduct
    /\ Len(priceTextsOf(card.raw)) = 1
    /\ card.raw.strike
    /\ PriceMatches(allTextOf(card.raw)) # <<>>
    /\ rec.record.discountPrice = EmptyStr
    /\ rec.record.originalPrice # EmptyStr

fallbackUsed == UseFallback(PrimaryPrices(priceTextsOf(card.raw), card.raw.strike))

\* C7 as stated: the raw-text fallback is used only when no price element
\* matched, and it resolves the prices by the rule of the primary path:
\* exactly two tokens give (first, second), exactly one token gives original
\* only with a strikethrough marker and original = discount otherwise.
C7_FallbackSameRule ==
    (isProduct /\ fallbackUsed) =>
        LET matches == PriceMatches(allTextOf(card.raw))
            r == rec.record
        IN  /\ priceTextsOf(card.raw) = <<>>
            /\ Len(matches) = 2 =>
                r.originalPrice = matches[1] /\ r.discountPrice = matches[2]
            /\ (Len(matches) = 1 /\ card.raw.strike) =>
                r.originalPrice = matches[1] /\ r.discountPrice = EmptyStr
            /\ (Len(matches) = 1 /\ ~card.raw.strike) =>
                r.originalPrice = matches[1] /\ r.discountPrice = matches[1]

\* C7 amended: the raw-text fallback is used exactly when the price elements
\* give neither one nor two tokens (none, or three and more); two or more
\* pattern matches give (first, second), exactly one match gives
\* original = discount whether or not a strikethrough marker is present, and
\* no match leaves both prices empty.
C7_FallbackRule ==
    isProduct =>
        LET matches == PriceMatches(allTextOf(card.raw))
            tokens == priceTextsOf(card.raw)
            r == rec.record
        IN  /\ fallbackUsed <=> Len(tokens) \notin {1, 2}
            /\ fallbackUsed =>
                /\ Len(matches) >= 2 =>
                     r.originalPrice = matches[1] /\ r.discountPrice = matches[2]
                /\ Len(matches) = 1 =>
                     r.originalPrice = matches[1] /\ r.discountPrice = matches[1]
                /\ Len(matches) = 0 =>
                     r.originalPrice = EmptyStr /\ r.discountPrice = EmptyStr

\* three price-element tokens (a wrapper and its two leaves), and three
\* pattern matches in the card text
C7_Witness ==
    /\ isProduct
    /\ Len(priceTextsOf(card.raw)) = 3
    /\ Len(PriceMatches(allTextOf(card.raw))) >= 3
    /\ rec.record.originalPrice # EmptyStr
    /\ rec.record.discountPrice # rec.record.originalPrice

\* the cascade as specified: the trimmed text of the first strategy whose text
\* is not empty after trimming
TrimmedFirst(outs) ==
    LET hits == {i \in Indices(outs) : outs[i] # None /\ Strip(outs[i][1]) # EmptyStr}
    IN  IF hits = {} THEN EmptyStr
        ELSE Strip(outs[CHOOSE i \in hits : \A j \in hits : i <= j][1])

\* C8: every field resolved by a selector cascade is the trimmed text of the
\* first strategy, in list order, whose text is non-empty after trimming.
C8_CascadeFirstNonEmpty ==
    /\ isProduct =>
         rec.record.tagging = TrimmedFirst(card.raw.labels \o <<card.raw.badge>>)
    /\ isJob =>
         /\ rec.record["Job_Title"] = TrimmedFirst(card.raw.title)
         /\ rec.record["Company_Title"] = TrimmedFirst(card.raw.company)
         /\ rec.record["Company_Slogan"] = TrimmedFirst(card.raw.slogan)
         /\ card.raw.allText # None =>
              /\ rec.record["Location"] = TrimmedFirst(card.raw.location)
              /\ rec.record["Industry"] = TrimmedFirst(card.raw.industry)
              /\ rec.record["Employes_Count"] = TrimmedFirst(card.raw.employee)
              /\ rec.record["Posted_Ago"] = TrimmedFirst(card.raw.posted)

noToken == priceTextsOf(card.raw) = <<>> /\ PriceMatches(allTextOf(card.raw)) = <<>>

\* the hrefs the link selectors returned, in selector order
hrefsFound ==
    LET l == card.raw.link
    IN  PickFrom([i \in Indices(l) |-> IF l[i] # None /\ l[i][1] # None THEN l[i][1][1] ELSE EmptyStr],
                 {i \in Indices(l) : l[i] # None /\ l[i][1] # None /\ l[i][1][1] # EmptyStr}, 1)

\* C9 as stated: Job_Link is empty exactly when no link strategy returned an
\* href, and a product price is empty exactly when neither the price elements
\* nor the raw-text fallback yielded a token.
C9_EmptyIffNothingFound ==
    /\ isJob => (rec.record["Job_Link"] = EmptyStr <=> hrefsFound = <<>>)
    /\ isProduct =>
         /\ rec.record.originalPrice = EmptyStr <=> noToken
         /\ rec.record.discountPrice = EmptyStr <=> noToken

allNone(outs) == \A i \in Indices(outs) : outs[i] = None

\* C9 amended: a field is empty when none of its strategies found an element.
\* Job_Link is empty exactly when reading the card text failed, or no link
\* strategy returned an href, or the first href returned starts with neither
\* "/" nor "http".  originalPrice is empty exactly when the price elements
\* give neither one nor two tokens and the card text holds no pattern match;
\* discountPrice is empty exactly then, or when the price elements give one
\* token and a strikethrough marker is present.
C9_EmptyFields ==
    /\ isJob =>
         /\ rec.record["Job_Link"] = EmptyStr <=>
              \/ card.raw.allText = None
              \/ hrefsFound = <<>>
              \/ /\ hrefsFound # <<>>
                 /\ Head(hrefsFound)[1] # "/"
                 /\ SubSeq(Head(hrefsFound), 1, 4) # <<"h", "t", "t", "p">>
         /\ allNone(card.raw.title) => rec.record["Job_Title"] = EmptyStr
         /\ allNone(card.raw.company) => rec.record["Company_Title"] = EmptyStr
         /\ allNone(card.raw.slogan) => rec.record["Company_Slogan"] = EmptyStr
         /\ allNone(card.raw.location) => rec.record["Location"] = EmptyStr
         /\ allNone(card.raw.industry) => rec.record["Industry"] = EmptyStr
         /\ allNone(card.raw.employee) => rec.record["Employes_Count"] = EmptyStr
         /\ allNone(card.raw.posted) => rec.record["Posted_Ago"] = EmptyStr
    /\ isProduct =>
         LET tokens == priceTextsOf(card.raw)
             nothing == Len(tokens) \notin {1, 2} /\ PriceMatches(allTextOf(card.raw)) = <<>>
         IN  /\ rec.record.originalPrice = EmptyStr <=> nothing
             /\ rec.record.discountPrice = EmptyStr <=>
                  (nothing \/ (Len(tokens) = 1 /\ card.raw.strike))
             /\ (allNone(card.raw.labels) /\ card.raw.badge = None) =>
                  rec.record.tagging = EmptyStr

\* the first href returned is relative, a later selector returned an absolute
\* one, and Job_Link is empty
C9_Witness ==
    /\ isJob
    /\ card.raw.allText # None
    /\ Len(hrefsFound) = 2
    /\ Head(hrefsFound)[1] = "j"
    /\ hrefsFound[2][1] = "/"
    /\ rec.record["Job_Link"] = EmptyStr

\* C10: every record held carries the full field set of its variant, 14
\* product fields or 10 job fields, also when the extraction of fields failed.
C10_FullFieldSet ==
    /\ Cardinality(ProductFields) = 14
    /\ Cardinality(JobFields) = 10
    /\ \A i \in Indices(products) : DOMAIN products[i] = ProductFields
    /\ \A i \in Indices(extracted) : DOMAIN extracted[i] = JobFields
    /\ \A i \in Indices(all_jobs_data) : DOMAIN all_jobs_data[i] = JobFields
    /\ \A i \in Indices(unique_data) : DOMAIN unique_data[i] = JobFields

\* a job whose card text could not be read is held, with its later fields empty
C10_Witness ==
    /\ pc = "saved"
    /\ \E i \in Indices(unique_data) :
         /\ unique_data[i]["Job_Link"] = EmptyStr
         /\ unique_data[i]["Job_Title"] # EmptyStr
         /\ DOMAIN unique_data[i] = JobFields

(***************************************************************************)
(* Claims about clean_job_data                                             *)
(***************************************************************************)
isCleaned == epc = "cleaned" /\ card.kind = "jobrec"

\* the letters of "yesterday", each in both cases
YesterdayLetters ==
    << {"y", "Y"}, {"e", "E"}, {"s", "S"}, {"t", "T"}, {"e", "E"},
       {"r", "R"}, {"d", "D"}, {"a", "A"}, {"y", "Y"} >>

\* text holds the word "yesterday" in some letter case
HasYesterday(text) ==
    \E i \in 1..Len(text) :
        /\ i + Len(YesterdayLetters) - 1 <= Len(text)
        /\ \A k \in 1..Len(YesterdayLetters) : text[i + k - 1] \in YesterdayLetters[k]

\* the first maximal run of digits of text, or text itself when it holds none
FirstRunOrSame(text) ==
    IF \A i \in 1..Len(text) : text[i] \notin Digits THEN text
    ELSE LET a == CHOOSE i \in 1..Len(text) :
                      text[i] \in Digits /\ \A j \in 1..(i - 1) : text[j] \notin Digits
             b == CHOOSE j \in a..Len(text) :
                      /\ \A k \in a..j : text[k] \in Digits
                      /\ j < Len(text) => text[j + 1] \notin Digits
         IN  SubSeq(text, a, b)

\* C11: clean_job_data sets Posted_Ago to exactly "1 days ago" when the input
\* Posted_Ago contains "yesterday" in any letter case, and returns every other
\* Posted_Ago value, the empty string included, unchanged.
C11_PostedAgoRule ==
    (isCleaned /\ "Posted_Ago" \in DOMAIN card.raw) =>
        rec.record["Posted_Ago"] =
            (IF HasYesterday(card.raw["Posted_Ago"]) THEN <<"1", " ", "d", "a", "y", "s", " ", "a", "g", "o">>
             ELSE card.raw["Posted_Ago"])

C11_Witness ==
    /\ isCleaned
    /\ "Posted_Ago" \in DOMAIN card.raw
    /\ card.raw["Posted_Ago"] = <<" ", "Y", "E", "S", "T", "E", "R", "D", "A", "Y", ",", " ", "3", ":", "0", "0", "p", "m", " ">>
    /\ rec.record["Posted_Ago"] = <<"1", " ", "d", "a", "y", "s", " ", "a", "g", "o">>

\* C12: clean_job_data replaces Employes_Count by the first contiguous run of
\* digits it contains ("about 10-15 employees" gives "10"), and leaves
\* Employes_Count exactly as given when it contains no digit.
C12_EmployesCountRule ==
    (isCleaned /\ "Employes_Count" \in DOMAIN card.raw) =>
        rec.record["Employes_Count"] = FirstRunOrSame(card.raw["Employes_Count"])

C12_Witness ==
    /\ isCleaned
    /\ "Employes_Count" \in DOMAIN card.raw
    /\ card.raw["Employes_Count"] = <<"a", "b", "o", "u", "t", " ", "1", "0", "-", "1", "5", " ", "e", "m", "p", "l", "o", "y", "e", "e", "s">>
    /\ rec.record["Employes_Count"] = <<"1", "0">>

\* C13: cleaning is idempotent and pure: cleaning a cleaned record returns it
\* as it is, the record handed in is not modified, the result has the field
\* set of the input, and every field other than Posted_Ago and Employes_Count
\* is unchanged.
C13_CleanIdempotentPure ==
    /\ isCleaned =>
         /\ rec.arg = card.raw
         /\ DOMAIN rec.record = DOMAIN card.raw
         /\ \A k \in DOMAIN card.raw \ {"Posted_Ago", "Employes_Count"} :
               rec.record[k] = card.raw[k]
    /\ epc = "recleaned" =>
         /\ rec.record = rec.once
         /\ rec.arg = rec.once

C13_Witness ==
    /\ epc = "recleaned"
    /\ card.raw # rec.once
    /\ rec.record = rec.once
    /\ rec.once["Posted_Ago"] = <<"1", " ", "d", "a", "y", "s", " ", "a", "g", "o">>
    /\ rec.once["Employes_Count"] = <<"4", "5">>
(***************************************************************************)
(* Claims about the product post-processing                                *)
(***************************************************************************)
filtered == variant = "product" /\ pc \in {"filtered", "printed", "done"}

\* text is not empty after trimming
NonBlankText(text) == \E i \in 1..Len(text) : ~IsWs(text[i])

\* the records held whose discountPrice is not empty after trimming, in order
WithDiscount == SelectSeq(products, LAMBDA p : NonBlankText(p.discountPrice))

\* the data rows of a file, none when the file was not written
RowsOf(file) == IF file = None THEN <<>> ELSE file[1]

isRanked(product) ==
    \E i \in 1..Len(RowsOf(top20_csv)) : RowsOf(top20_csv)[i].product_url = product.productUrl

ReviewsAbove150(product) ==
    /\ ParseInt(product.reviewCount) # None
    /\ NumGt(ParseInt(product.reviewCount)[1], Num(150, 0))

\* C15 as stated: a product enters the top-by-rating ranking only if its
\* reviewCount parses as an integer greater than 150 and its ratingScore
\* parses as a number; a product whose ratingScore is empty or unparsable is
\* never ranked, whatever its review count.
C15_OnlyRatedRanked ==
    (variant = "product" /\ pc = "done") =>
        \A i \in 1..Len(products) :
            isRanked(products[i]) =>
                /\ ReviewsAbove150(products[i])
                /\ ParseFloat(products[i].ratingScore) # None

\* C15 as amended: a product enters the ranking only if its reviewCount parses
\* as an integer greater than 150 and its ratingScore is empty (it then counts
\* as rating 0) or parses as a number; a product whose ratingScore is not
\* empty and unparsable is never ranked, whatever its review count.
C15_RankedRule ==
    (variant = "product" /\ pc = "done") =>
        \A i \in 1..Len(products) :
            /\ isRanked(products[i]) =>
                 /\ ReviewsAbove150(products[i])
                 /\ \/ products[i].ratingScore = EmptyStr
                    \/ ParseFloat(products[i].ratingScore) # None
            /\ (isRanked(products[i]) /\ products[i].ratingScore = EmptyStr) =>
                 \E r \in 1..Len(RowsOf(top20_csv)) :
                    /\ RowsOf(top20_csv)[r].product_url = products[i].productUrl
                    /\ RowsOf(top20_csv)[r].rating_score = Num(0, 0)

\* a product without rating is ranked, one with an unparsable rating and 500
\* reviews is not
C15_Witness ==
    /\ variant = "product" /\ pc = "done"
    /\ \E i \in 1..Len(products) :
          /\ products[i].ratingScore = EmptyStr
          /\ isRanked(products[i])
    /\ \E i \in 1..Len(products) :
          /\ products[i].ratingScore = <<"n", "/", "a">>
          /\ ReviewsAbove150(products[i])
          /\ ~isRanked(products[i])
    /\ \E i \in 1..Len(products) :
          /\ products[i].ratingScore = <<"4", ".", "8">>
          /\ ~ReviewsAbove150(products[i])
          /\ ~isRanked(products[i])

\* pair a is strictly better than pair b: higher rating, or the same rating
\* and more reviews
Better(a, b) ==
    \/ NumGt(a.rating_score, b.rating_score)
    \/ NumEq(a.rating_score, b.rating_score) /\ NumGt(a.review_count, b.review_count)

SamePair(a, b) ==
    NumEq(a.rating_score, b.rating_score) /\ NumEq(a.review_count, b.review_count)

\* the (rating, reviews) pairs of the eligible products, kept or not
EligiblePairs ==
    LET el == eligible_products(valid_products)
    IN  [i \in 1..Len(el) |-> [rating_score |-> el[i].rating, review_count |-> el[i].reviews]]

\* C16: create_top_20_rating_review orders eligible products by rating
\* descending then review count descending, keeps at most the first 20, and
\* assigns ranks so that the first item has rank 1 and the item at 0-based
\* index i has rank i+1 unless its (rating, reviews) pair equals that of item
\* i-1, in which case it takes item i-1's rank; hence every item's rank equals
\* 1 plus the number of eligible items with a strictly better pair.
C16_TieRanking ==
    (variant = "product" /\ pc = "done") =>
        LET rows == RowsOf(top20_csv)
        IN  /\ Len(rows) <= 20
            /\ Len(rows) = (IF Len(EligiblePairs) < 20 THEN Len(EligiblePairs) ELSE 20)
            /\ \A i \in 1..Len(rows) : \A j \in 1..Len(rows) :
                  i < j => ~Better(rows[j], rows[i])
            /\ \A i \in 1..Len(rows) :
                  /\ i = 1 => rows[i].rank = 1
                  /\ i > 1 => rows[i].rank =
                        (IF SamePair(rows[i], rows[i - 1]) THEN rows[i - 1].rank ELSE i)
                  /\ rows[i].rank =
                        1 + Cardinality({k \in 1..Len(EligiblePairs) :
                                            Better(EligiblePairs[k], rows[i])})

\* C17: print_top_10_expensive ranks exactly the exported products whose
\* discountPrice parses as a number after removing the currency symbol and
\* thousands separators, lists at most 10 of them in non-increasing price
\* order with positions 1..k, and neither removes a record whose price fails
\* to parse from the collection or the CSV nor modifies any record.
C17_TopTenByPrice ==
    (variant = "product" /\ pc \in {"printed", "done"}) =>
        LET priced == SelectSeq(valid_products, LAMBDA p : PriceOf(p) # None)
        IN  /\ Len(top10) = (IF Len(priced) < 10 THEN Len(priced) ELSE 10)
            /\ \A i \in 1..Len(top10) :
                  /\ top10[i].pos = i
                  /\ \E k \in 1..Len(priced) : priced[k] = top10[i].product
                  /\ top10[i].price = PriceOf(top10[i].product)[1]
            /\ \A i \in 1..Len(top10) : \A j \in 1..Len(top10) :
                  i < j => ~NumLt(top10[i].price, top10[j].price)
            /\ \A k \in 1..Len(priced) :
                  (\A i \in 1..Len(top10) : top10[i].product # priced[k]) =>
                      \A i \in 1..Len(top10) : ~NumGt(PriceOf(priced[k])[1], top10[i].price)
            /\ valid_products = WithDiscount
            /\ Len(RowsOf(products_csv)) = Len(WithDiscount)

(***************************************************************************)
(* Claims about the run of the product pipeline                            *)
(***************************************************************************)
\* the step taken is one iteration of the scroll loop
batchStep == variant = "product" /\ pc = "scroll" /\ Len(products) < target_count

\* C18: scroll_and_load terminates for every behaviour of the page fetcher
\* that returns each batch: whatever target_count and whatever the batches,
\* the loop exits after finitely many batches, because each batch either
\* raises the number of distinct records held toward the target or advances
\* the no-growth counter toward 5.
C18_ScrollTerminates ==
    /\ (variant = "product" /\ pc \in {"start", "scroll"}) ~> (pc = "scrolled")
    /\ [][batchStep =>
            \/ Len(products') > Len(products)
            \/ /\ Len(products') = Len(products)
               /\ no_change_count' = no_change_count + 1
               /\ no_change_count' <= NoChangeLimit]_vars

\* the loop has ended on the plateau, below the target, after it had grown
C18_Witness ==
    /\ variant = "product"
    /\ pc = "scrolled"
    /\ no_change_count = NoChangeLimit
    /\ Len(products) >= 1
    /\ Len(products) < target_count

\* C19: in every run of the product pipeline through main every accumulated
\* record has ratingScore and reviewCount equal to the empty string, so
\* create_top_20_rating_review never finds an eligible product and
\* top_20_rating_review.csv is never written, whatever the scraped data.
C19_NeverRated ==
    /\ \A i \in 1..Len(products) :
          products[i].ratingScore = EmptyStr /\ products[i].reviewCount = EmptyStr
    /\ \A i \in 1..Len(valid_products) : ~IsEligible(valid_products[i])
    /\ top20_csv = None

\* create_top_20_rating_review has run on exported products and wrote no file
C19_Witness ==
    /\ variant = "product"
    /\ pc = "done"
    /\ Len(products) >= 2
    /\ Len(valid_products) >= 1
    /\ top10 # <<>>
    /\ products_csv # None
    /\ top20_csv = None

====
